---- MODULE Spec2Model ----
(***************************************************************************)
(* A model of the parallel BLAKE3 streaming hasher SABStreamHasher: the    *)
(* subtree planner (#buildTree), the shared-buffer slot pool, the worker   *)
(* pool with its pending-task table, the streaming dispatcher of hashFile  *)
(* and the bubble-up combiner; and of the message exchange of             *)
(* StreamingHasher.hashFile with the streaming worker.                     *)
(*                                                                         *)
(* Sizes and offsets are in bytes, as in the source.  The content of an    *)
(* input is symbolic: the file hashed by call c is the file c, and a run   *)
(* of bytes is a segment <<f, q, n>>: n bytes of file f starting at byte q *)
(* (f = 0: zero bytes of a fresh shared buffer).  Chaining values are      *)
(* terms of the BLAKE3 tree, see hash_subtree, parent_cv and root_hash.    *)
(*                                                                         *)
(* One step of the model is one task of the coordinator's event loop: a    *)
(* handler together with the promise reactions it triggers, up to the next *)
(* suspension point of hashFile.  The per-worker statistics of hashFile    *)
(* (workerStats, workerHasHadWork, workerUnderruns, timings) are left out: *)
(* nothing reads them but the returned report.                             *)
(***************************************************************************)
EXTENDS Integers, Sequences, FiniteSets, TLC

\* ------------------------------------------------------------ constants
CHUNK_SIZE == 1024
MAX_INFLIGHT_PER_WORKER == 2
\* hashFile's small-input shortcut: file.size < 65536
SMALL_INPUT == 65536
\* JavaScript's Infinity of maxSubtreeLen(0), as the largest integer of the model
Infinity == 2147483647

\* ------------------------------------------------------------ bounds
\* hashFile calls made on the hasher in one behaviour
MaxCalls == 2
\* injected task failures (error replies, timeouts, worker error events)
MaxFaults == 1
\* Worker objects the hasher may hold at once (failed inits leave theirs behind)
MaxWorkerObjs == 2
\* init() calls in one behaviour
MaxInits == 2

\* configurations of the constructor: options.workerCount, options.chunkSize
WorkerCounts == {1, 2}
LeafSizes == {32768, 65536}
\* file sizes of the hashFile calls
FileSizes == {0, 1024, 65535, 65536, 65537}
\* sizes of the chunks a stream read may deliver (cut to what is left)
ReadSizes == {32768, 40000}

\* ------------------------------------------------------------ helpers
Min(a, b) == IF a < b THEN a ELSE b

NULL == -1

\* the absent chaining value (Map.get of a missing key)
NoCV == <<>>

\* ------------------------------------------------------------ primitives
\* left_subtree_len(n), n > 1024: the largest power-of-two number of chunks
\* strictly less than the chunk count of n, times 1024.
RECURSIVE Pow2Below(_, _)
Pow2Below(p, chunks) == IF 2 * p < chunks THEN Pow2Below(2 * p, chunks) ELSE p

\* variant of left_subtree_len that takes all chunks but the last
left_subtree_lenAllButLast(n) == ((n - 1) \div CHUNK_SIZE) * CHUNK_SIZE

left_subtree_len(n) ==
  LET chunks == (n + CHUNK_SIZE - 1) \div CHUNK_SIZE
  IN Pow2Below(1, chunks) * CHUNK_SIZE

\* A non-root chaining value <<"cv", f, c, q, n>>: the subtree over the bytes
\* [q, q+n) of file f, hashed with chunk counters that start at byte offset c.
CV(f, c, q, n) == <<"cv", f, c, q, n>>
IsCV(x) == Len(x) = 5 /\ x[1] = "cv"
\* A root digest <<"root", f, n>>: the BLAKE3 hash of the n bytes of file f.
Root(f, n) == <<"root", f, n>>

\* two non-root CVs that are the left and right child of a BLAKE3 tree node
Siblings(l, r) ==
  /\ IsCV(l) /\ IsCV(r)
  /\ l[2] = r[2] /\ l[3] = l[4] /\ r[3] = r[4]
  /\ r[4] = l[4] + l[5]
  /\ l[5] + r[5] > CHUNK_SIZE
  /\ l[5] = left_subtree_len(l[5] + r[5])

\* hash_subtree(view, input_offset): view is a sequence of segments.  A view
\* that is one run of file bytes gives the CV of that subtree; anything else
\* (zero bytes, bytes of two leaves) gives a CV no BLAKE3 tree of a file has.
hash_subtree(view, input_offset) ==
  IF Len(view) = 1 /\ view[1][1] > 0
  THEN CV(view[1][1], input_offset, view[1][2], view[1][3])
  ELSE <<"mix", input_offset, view>>

\* parent_cv(l, r): the inner node over l and r, without the root flag.
parent_cv(l, r) ==
  IF Siblings(l, r) THEN CV(l[2], l[3], l[4], l[5] + r[5])
  ELSE <<"parent", l, r>>

\* root_hash(l, r): the node over l and r, with the root flag.
root_hash(l, r) ==
  IF Siblings(l, r) /\ l[4] = 0 THEN Root(l[2], l[5] + r[5])
  ELSE <<"badroot", l, r>>

\* hash_single(data): the BLAKE3 hash of the whole of file f, n bytes.
hash_single(f, n) == Root(f, n)

\* ------------------------------------------------------------ planner
RECURSIVE LowBit(_)
LowBit(n) == IF n % 2 = 1 THEN 1 ELSE 2 * LowBit(n \div 2)

maxSubtreeLen(offset) ==
  IF offset = 0 THEN Infinity
  ELSE LowBit(offset \div 1024) * 1024

\* variant of InnerNode whose size leaves out the last byte
InnerNodeShort(id, offset, size, leftId, rightId) ==
  [id |-> id, type |-> "node", offset |-> offset, size |-> size - 1,
   leftId |-> leftId, rightId |-> rightId, parentId |-> NULL]

\* variant of IsLeafSize without the test against this.#chunkSize
IsLeafSizeAnySize(offset, size, chunkSz) == size <= maxSubtreeLen(offset)

LeafNode(id, offset, size) ==
  [id |-> id, type |-> "leaf", offset |-> offset, size |-> size,
   leftId |-> NULL, rightId |-> NULL, parentId |-> NULL]

InnerNode(id, offset, size, leftId, rightId) ==
  [id |-> id, type |-> "node", offset |-> offset, size |-> size,
   leftId |-> leftId, rightId |-> rightId, parentId |-> NULL]

IsLeafSize(offset, size, chunkSz) ==
  size <= chunkSz /\ size <= maxSubtreeLen(offset)

\* #buildTree(offset, size) with this.#nextNodeId = id and this.#chunkSize =
\* chunkSz: the id of the node built, the next free id, and the nodes added
\* to this.#nodeMap.
RECURSIVE buildTree(_, _, _, _)
buildTree(offset, size, id, chunkSz) ==
  IF IsLeafSize(offset, size, chunkSz)
  THEN [root |-> id, next |-> id + 1, nodes |-> (id :> LeafNode(id, offset, size))]
  ELSE LET leftLen == left_subtree_len(size)
           L == buildTree(offset, leftLen, id + 1, chunkSz)
           R == buildTree(offset + leftLen, size - leftLen, L.next, chunkSz)
           sub == L.nodes @@ R.nodes
           kids == [k \in DOMAIN sub |->
                      IF k = L.root \/ k = R.root
                      THEN [sub[k] EXCEPT !.parentId = id] ELSE sub[k]]
       IN [root |-> id, next |-> R.next,
           nodes |-> (id :> InnerNode(id, offset, size, L.root, R.root)) @@ kids]

\* variant of collectLeaves that takes the right subtree first
RECURSIVE collectLeavesRightFirst(_, _)
collectLeavesRightFirst(nodes, id) ==
  IF nodes[id].type = "leaf" THEN <<nodes[id]>>
  ELSE collectLeavesRightFirst(nodes, nodes[id].rightId)
       \o collectLeavesRightFirst(nodes, nodes[id].leftId)

\* #collectLeaves(node): the leaves under the node, left to right.
RECURSIVE collectLeaves(_, _)
collectLeaves(nodes, id) ==
  IF nodes[id].type = "leaf" THEN <<nodes[id]>>
  ELSE collectLeaves(nodes, nodes[id].leftId) \o collectLeaves(nodes, nodes[id].rightId)

\* ------------------------------------------------------------ state
VARIABLES
  numWorkers,    \* this.#numWorkers
  chunkSize,     \* this.#chunkSize (max_leaf_size)
  initialized,   \* this.#initialized
  workers,       \* this.#workers, each Worker with the state of its own thread
  pendingTasks,  \* this.#pendingTasks: the set of pending task records
  nextTaskId,    \* this.#nextTaskId
  nodeMap,       \* this.#nodeMap: node id -> node
  numSlots,      \* this.#numSlots
  slotInUse,     \* this.#slotInUse: slot index -> BOOLEAN
  sab,           \* this.#sab: slot index -> the segments the slot holds
  sabGen,        \* which SharedArrayBuffer this.#sab is (0: null)
  calls,         \* the hashFile calls made so far, each with its closure state
  faults         \* failures injected so far

vars == <<numWorkers, chunkSize, initialized, workers, pendingTasks, nextTaskId,
          nodeMap, numSlots, slotInUse, sab, sabGen, calls, faults>>

\* The part of the state the handlers of a hash job change, as one record.
St ==
  [calls |-> calls, pendingTasks |-> pendingTasks, nextTaskId |-> nextTaskId,
   nodeMap |-> nodeMap, slotInUse |-> slotInUse, sab |-> sab, workers |-> workers]

Becomes(s) ==
  /\ calls' = s.calls
  /\ pendingTasks' = s.pendingTasks
  /\ nextTaskId' = s.nextTaskId
  /\ nodeMap' = s.nodeMap
  /\ slotInUse' = s.slotInUse
  /\ sab' = s.sab
  /\ workers' = s.workers

\* ------------------------------------------------------------ promises
Pending == [st |-> "pending", v |-> <<>>]
Resolved(v) == [st |-> "resolved", v |-> v]
Rejected(e) == [st |-> "rejected", v |-> e]

\* resolve and reject settle a promise once; later calls do nothing
Resolve(p, v) == IF p.st = "pending" THEN Resolved(v) ELSE p
Reject(p, e) == IF p.st = "pending" THEN Rejected(e) ELSE p

\* the errors of the source, by kind
NotInitializedError == <<"NotInitialized", 0>>
TimeoutError(taskId) == <<"TaskTimeout", taskId>>
WorkerFailure(i) == <<"WorkerFailure", i>>
TaskError(taskId) == <<"TaskError", taskId>>
TerminatedError == <<"Terminated", 0>>
TypeError == <<"TypeError", 0>>
\* the error e a failing stream read rejects with
StreamFailure(e) == <<"StreamError", e>>

\* ------------------------------------------------------------ maps
MapGet(m, k) == IF k \in DOMAIN m THEN m[k] ELSE NoCV
MapSet(m, k, v) == [x \in (DOMAIN m) \cup {k} |-> IF x = k THEN v ELSE m[x]]
EmptyMap == [x \in {} |-> NoCV]

\* ------------------------------------------------------------ shared buffer
SegLen(segs) == IF segs = <<>> THEN 0 ELSE
  LET RECURSIVE Sum(_)
      Sum(i) == IF i = 0 THEN 0 ELSE segs[i][3] + Sum(i - 1)
  IN Sum(Len(segs))

\* the first k bytes of a run of segments
RECURSIVE TakeBytes(_, _)
TakeBytes(segs, k) ==
  IF k <= 0 \/ segs = <<>> THEN <<>>
  ELSE IF segs[1][3] <= k
       THEN <<segs[1]>> \o TakeBytes(Tail(segs), k - segs[1][3])
       ELSE << <<segs[1][1], segs[1][2], k>> >>

\* what is left after the first k bytes
RECURSIVE DropBytes(_, _)
DropBytes(segs, k) ==
  IF segs = <<>> THEN <<>>
  ELSE IF k <= 0 THEN segs
  ELSE IF segs[1][3] <= k THEN DropBytes(Tail(segs), k - segs[1][3])
  ELSE << <<segs[1][1], IF segs[1][1] > 0 THEN segs[1][2] + k ELSE 0, segs[1][3] - k>> >>
       \o Tail(segs)

Zeros(n) == IF n > 0 THEN << <<0, 0, n>> >> ELSE <<>>

\* adjacent segments that continue each other are one segment
RECURSIVE Coalesce(_)
Coalesce(segs) ==
  IF Len(segs) < 2 THEN segs
  ELSE LET a == segs[1]
           b == segs[2]
       IN IF a[1] = b[1] /\ (a[1] = 0 \/ b[2] = a[2] + a[3])
          THEN Coalesce(<< <<a[1], a[2], a[3] + b[3]>> >> \o Tail(Tail(segs)))
          ELSE <<a>> \o Coalesce(Tail(segs))

\* TypedArray.set: n bytes of file f from byte q, written at position pos
WriteBytes(segs, pos, f, q, n) ==
  LET head == TakeBytes(segs, pos)
      pad == Zeros(pos - SegLen(head))
  IN Coalesce(head \o pad \o << <<f, q, n>> >> \o DropBytes(segs, pos + n))

\* new Uint8Array(buffer, 0, size) over a slot: its first size bytes
ViewBytes(segs, size) ==
  LET head == TakeBytes(segs, size)
  IN Coalesce(head \o Zeros(size - SegLen(head)))

\* ------------------------------------------------------------ closures
\* The closure state of one hashFile call.  pc is where the call is suspended:
\* reader is the lock of the call on the file's stream: "none", "locked"
\* (file.stream().getReader()), "released" (reader.releaseLock()).
\* "read" (await reader.read()), "waitSlot" (the stream loop's await of
\* resolveSlot), "drain" (the drain loop's await of resolveSlot), "awaitRoot"
\* (await rootPromise), "done" (returned or thrown: result).
NewCall(c, size) ==
  [id |-> c, size |-> size, pc |-> "done", result |-> Pending, piped |-> FALSE,
   leaves |-> <<>>, cvMap |-> EmptyMap, workerInFlight |-> <<>>,
   root |-> Pending, resolveSlot |-> FALSE, pendingDispatches |-> <<>>,
   currentLeafIdx |-> 0, currentSlotIdx |-> NULL, leafFilled |-> 0,
   streamPos |-> 0, chunkOff |-> 0, chunkRem |-> 0, reader |-> "none"]

\* A call that has returned or thrown: what is left of it is what the
\* callbacks of its tasks hold (the CV map, the in-flight counters, the root
\* promise, the dispatch queue, resolveSlot); the locals of its stream loop
\* are out of scope.
Returned(cl, result) ==
  [cl EXCEPT !.pc = "done", !.result = result, !.leaves = <<>>,
             !.currentLeafIdx = 0, !.currentSlotIdx = NULL, !.leafFilled = 0,
             !.streamPos = 0, !.chunkOff = 0, !.chunkRem = 0]

\* The closure of a returned call is reachable only through the callbacks of
\* its tasks, which the pending-task table holds: with none of its tasks
\* pending nothing can run or read it any more, and the next hashFile call
\* finds only its outcome.
Collected(cl, pending) ==
  IF cl.pc = "done" /\ ~\E t \in pending : t.call = cl.id
  THEN [cl EXCEPT !.cvMap = EmptyMap, !.workerInFlight = <<>>, !.root = cl.result]
  ELSE cl

SetCall(s, c, rec) == [s EXCEPT !.calls[c] = rec]

\* ------------------------------------------------------------ slot pool
\* #findFreeSlot(): the lowest free slot index, or -1
findFreeSlot(inUse, n) ==
  IF \E i \in 0..(n - 1) : ~inUse[i]
  THEN CHOOSE i \in 0..(n - 1) : ~inUse[i] /\ \A j \in 0..(i - 1) : inUse[j]
  ELSE -1

\* this.#slotInUse[i] = b; an index outside the array adds a property to the
\* array object and leaves its elements as they are
SlotSet(inUse, i, b) ==
  IF i \in DOMAIN inUse THEN [inUse EXCEPT ![i] = b] ELSE inUse

\* ------------------------------------------------------------ combiner
\* rejectRoot(err) of call c
rejectRoot(s, c, err) ==
  [s EXCEPT !.calls[c].root = Reject(s.calls[c].root, err)]

\* variant of MergeCv that never sets the root flag
MergeCvParentOnly(isRoot, leftCv, rightCv) == parent_cv(leftCv, rightCv)

\* isRoot ? root_hash(leftCv, rightCv) : parent_cv(leftCv, rightCv)
MergeCv(isRoot, leftCv, rightCv) ==
  IF isRoot THEN root_hash(leftCv, rightCv) ELSE parent_cv(leftCv, rightCv)

\* variant of bubbleUp that merges a parent as soon as one of its children has a CV
RECURSIVE bubbleUpEither(_, _, _, _)
bubbleUpEither(nodes, cvMap, root, nodeId) ==
  IF nodeId \notin DOMAIN nodes
  THEN [cvMap |-> cvMap, root |-> root, threw |-> TRUE]
  ELSE LET node == nodes[nodeId] IN
    IF node.parentId = NULL
    THEN [cvMap |-> cvMap, root |-> Resolve(root, MapGet(cvMap, nodeId)), threw |-> FALSE]
    ELSE LET parent == nodes[node.parentId]
             leftCv == MapGet(cvMap, parent.leftId)
             rightCv == MapGet(cvMap, parent.rightId)
         IN IF leftCv # NoCV \/ rightCv # NoCV
            THEN bubbleUpEither(nodes,
                          MapSet(cvMap, parent.id,
                                 MergeCv(parent.parentId = NULL, leftCv, rightCv)),
                          root, parent.id)
            ELSE [cvMap |-> cvMap, root |-> root, threw |-> FALSE]

\* variant of bubbleUp that merges a parent as soon as its right child has a CV
RECURSIVE bubbleUpOnRight(_, _, _, _)
bubbleUpOnRight(nodes, cvMap, root, nodeId) ==
  IF nodeId \notin DOMAIN nodes
  THEN [cvMap |-> cvMap, root |-> root, threw |-> TRUE]
  ELSE LET node == nodes[nodeId] IN
    IF node.parentId = NULL
    THEN [cvMap |-> cvMap, root |-> Resolve(root, MapGet(cvMap, nodeId)), threw |-> FALSE]
    ELSE LET parent == nodes[node.parentId]
             leftCv == MapGet(cvMap, parent.leftId)
             rightCv == MapGet(cvMap, parent.rightId)
         IN IF rightCv # NoCV
            THEN bubbleUpOnRight(nodes,
                          MapSet(cvMap, parent.id,
                                 MergeCv(parent.parentId = NULL, leftCv, rightCv)),
                          root, parent.id)
            ELSE [cvMap |-> cvMap, root |-> root, threw |-> FALSE]

\* variant of bubbleUp that merges a parent as soon as its left child has a CV
RECURSIVE bubbleUpOnLeft(_, _, _, _)
bubbleUpOnLeft(nodes, cvMap, root, nodeId) ==
  IF nodeId \notin DOMAIN nodes
  THEN [cvMap |-> cvMap, root |-> root, threw |-> TRUE]
  ELSE LET node == nodes[nodeId] IN
    IF node.parentId = NULL
    THEN [cvMap |-> cvMap, root |-> Resolve(root, MapGet(cvMap, nodeId)), threw |-> FALSE]
    ELSE LET parent == nodes[node.parentId]
             leftCv == MapGet(cvMap, parent.leftId)
             rightCv == MapGet(cvMap, parent.rightId)
         IN IF leftCv # NoCV
            THEN bubbleUpOnLeft(nodes,
                          MapSet(cvMap, parent.id,
                                 MergeCv(parent.parentId = NULL, leftCv, rightCv)),
                          root, parent.id)
            ELSE [cvMap |-> cvMap, root |-> root, threw |-> FALSE]

\* bubbleUp(nodeId) of a call with CV map cvMap and root promise root, over the
\* hasher's current node map: the new CV map and root promise, and whether it
\* threw (nodeId not in the node map: node is undefined).
RECURSIVE bubbleUp(_, _, _, _)
bubbleUp(nodes, cvMap, root, nodeId) ==
  IF nodeId \notin DOMAIN nodes
  THEN [cvMap |-> cvMap, root |-> root, threw |-> TRUE]
  ELSE LET node == nodes[nodeId] IN
    IF node.parentId = NULL
    THEN [cvMap |-> cvMap, root |-> Resolve(root, MapGet(cvMap, nodeId)), threw |-> FALSE]
    ELSE LET parent == nodes[node.parentId]
             leftCv == MapGet(cvMap, parent.leftId)
             rightCv == MapGet(cvMap, parent.rightId)
         IN IF leftCv # NoCV /\ rightCv # NoCV
            THEN bubbleUp(nodes,
                          MapSet(cvMap, parent.id,
                                 MergeCv(parent.parentId = NULL, leftCv, rightCv)),
                          root, parent.id)
            ELSE [cvMap |-> cvMap, root |-> root, threw |-> FALSE]

\* StreamingHasher.#mergeTree(nodeId, cvMap, isRoot): the tree under nodeId
\* merged depth first from the CVs of its leaves
RECURSIVE mergeTree(_, _, _, _)
mergeTree(nodes, nodeId, cvMap, isRoot) ==
  IF nodes[nodeId].type = "leaf" THEN MapGet(cvMap, nodeId)
  ELSE LET leftCV == mergeTree(nodes, nodes[nodeId].leftId, cvMap, FALSE)
           rightCV == mergeTree(nodes, nodes[nodeId].rightId, cvMap, FALSE)
       IN IF isRoot THEN root_hash(leftCV, rightCV) ELSE parent_cv(leftCV, rightCV)

\* ------------------------------------------------------------ dispatch
\* variant of LeastLoaded that always takes worker 0
FirstWorker(inFlight) == 0

\* the least-loaded worker, the lowest index among equals
LeastLoaded(inFlight) ==
  CHOOSE w \in DOMAIN inFlight :
    /\ \A v \in DOMAIN inFlight : inFlight[w] <= inFlight[v]
    /\ \A v \in DOMAIN inFlight : v < w => inFlight[v] > inFlight[w]

\* variant of HashMsg that sends the slot offset as the file offset
HashMsgSlotOffset(taskId, sabSlotOffset, fileOffset, size, held) ==
  [taskId |-> taskId, offset |-> sabSlotOffset, fileOffset |-> sabSlotOffset,
   size |-> size, seen |-> {held}]

\* the 'hash' message of a task.  The worker reads the slot at some moment
\* between the posting of the message and its reply, unsynchronized with the
\* coordinator's writes: seen is what the slot has held since the posting.
HashMsg(taskId, sabSlotOffset, fileOffset, size, held) ==
  [taskId |-> taskId, offset |-> sabSlotOffset, fileOffset |-> fileOffset,
   size |-> size, seen |-> {held}]

\* #dispatchTask(workerIdx, sabSlotOffset, fileOffset, size) called by call c for
\* the queued item: the task enters the pending-task table and its message the
\* worker's queue.  With no Worker at workerIdx postMessage throws in the promise
\* executor: the task's promise rejects and its catch rejects the root.
dispatchTask(s, c, workerIdx, item) ==
  LET taskId == s.nextTaskId
      task == [id |-> taskId, workerIndex |-> workerIdx, call |-> c,
               slot |-> item.slotIdx, leafId |-> item.leafId]
      msg == HashMsg(taskId, item.slotIdx * chunkSize, item.leaf.offset, item.leaf.size,
                     IF item.slotIdx \in DOMAIN s.sab THEN s.sab[item.slotIdx] ELSE <<>>)
      s1 == [s EXCEPT !.nextTaskId = taskId + 1,
                      !.pendingTasks = s.pendingTasks \cup {task}]
  IN IF workerIdx + 1 \in DOMAIN s.workers
     THEN [s1 EXCEPT !.workers[workerIdx + 1].inbox = Append(@, msg)]
     ELSE rejectRoot(s1, c, TypeError)

\* no worker is below MAX_INFLIGHT_PER_WORKER
AllSaturated(inFlight) ==
  \A w \in DOMAIN inFlight : inFlight[w] >= MAX_INFLIGHT_PER_WORKER

\* tryDispatchPending() of call c
RECURSIVE tryDispatchPending(_, _)
tryDispatchPending(s, c) ==
  LET cl == s.calls[c] IN
  IF cl.pendingDispatches = <<>> \/ AllSaturated(cl.workerInFlight) THEN s
  ELSE LET item == Head(cl.pendingDispatches)
           workerIdx == LeastLoaded(cl.workerInFlight)
           s1 == [s EXCEPT !.calls[c].pendingDispatches = Tail(@),
                           !.calls[c].workerInFlight[workerIdx] = @ + 1]
       IN tryDispatchPending(dispatchTask(s1, c, workerIdx, item), c)

\* ------------------------------------------------------------ hashFile
\* await rootPromise: a call suspended there returns (or throws) as soon as
\* the root promise is settled
awaitRoot(s, c) ==
  LET cl == s.calls[c] IN
  IF cl.pc = "awaitRoot" /\ cl.root.st # "pending"
  THEN [s EXCEPT !.calls[c] = Returned(cl, cl.root)]
  ELSE s

\* the drain loop after EOF, from a tryDispatchPending() on: it waits on
\* resolveSlot while dispatches are pending, then awaits the root
drainLoop(s, c) ==
  LET s1 == tryDispatchPending(s, c) IN
  IF s1.calls[c].pendingDispatches # <<>>
  THEN [s1 EXCEPT !.calls[c].pc = "drain", !.calls[c].resolveSlot = TRUE]
  ELSE awaitRoot([s1 EXCEPT !.calls[c].pc = "awaitRoot"], c)

\* variant of copyToSlot that writes at the start of the slot
copyToSlotAtZero(s, c, toCopy) ==
  LET cl == s.calls[c]
      slot == cl.currentSlotIdx
  IN IF slot \in DOMAIN s.sab
     THEN [s EXCEPT !.sab[slot] = WriteBytes(s.sab[slot], 0, c, cl.chunkOff, toCopy)]
     ELSE s

\* slotView.set(chunk.subarray(chunkOffset, chunkOffset + toCopy), leafFilled):
\* the write is seen by every worker with an unhandled task on that slot
copyToSlot(s, c, toCopy) ==
  LET cl == s.calls[c]
      slot == cl.currentSlotIdx
      held == WriteBytes(s.sab[slot], cl.leafFilled, c, cl.chunkOff, toCopy)
  IN IF slot \in DOMAIN s.sab
     THEN [s EXCEPT
             !.sab[slot] = held,
             !.workers = [i \in DOMAIN s.workers |->
                [s.workers[i] EXCEPT !.inbox = [k \in DOMAIN s.workers[i].inbox |->
                   IF s.workers[i].inbox[k].offset = slot * chunkSize
                   THEN [s.workers[i].inbox[k] EXCEPT !.seen = @ \cup {held}]
                   ELSE s.workers[i].inbox[k]]]]]
     ELSE s

\* The body of the stream loop for the chunk at hand, up to the next
\* suspension: the next reader.read(), or the wait for a free slot.
\* acquire = TRUE enters at the search for the next slot (lines 304-313).
RECURSIVE streamLoop(_, _, _)
streamLoop(s, c, acquire) ==
  LET cl == s.calls[c] IN
  IF acquire THEN
    LET nextSlot == findFreeSlot(s.slotInUse, numSlots) IN
    IF nextSlot = -1
    THEN [s EXCEPT !.calls[c].pc = "waitSlot", !.calls[c].resolveSlot = TRUE]
    ELSE streamLoop([s EXCEPT !.calls[c].currentSlotIdx = nextSlot,
                              !.slotInUse = SlotSet(@, nextSlot, TRUE),
                              !.calls[c].leafFilled = 0], c, FALSE)
  ELSE IF cl.chunkRem > 0 /\ cl.currentLeafIdx < Len(cl.leaves) THEN
    LET leaf == cl.leaves[cl.currentLeafIdx + 1]
        remaining == leaf.size - cl.leafFilled
        toCopy == Min(remaining, cl.chunkRem)
        s1 == [copyToSlot(s, c, toCopy) EXCEPT
                 !.calls[c].leafFilled = @ + toCopy,
                 !.calls[c].chunkOff = @ + toCopy,
                 !.calls[c].chunkRem = @ - toCopy]
    IN IF s1.calls[c].leafFilled = leaf.size
       THEN LET item == [slotIdx |-> cl.currentSlotIdx, leaf |-> leaf, leafId |-> leaf.id]
                s2 == tryDispatchPending(
                        [s1 EXCEPT !.calls[c].pendingDispatches = Append(@, item)], c)
                s3 == [s2 EXCEPT !.calls[c].currentLeafIdx = @ + 1]
            IN streamLoop(s3, c, s3.calls[c].currentLeafIdx < Len(cl.leaves))
       ELSE streamLoop(s1, c, FALSE)
  ELSE [s EXCEPT !.calls[c].pc = "read", !.calls[c].chunkRem = 0]

\* variant of wake that leaves the call suspended
wakeNever(s, c) == s

\* resolveSlot(): the call suspended on it goes on, in the stream loop with
\* tryDispatchPending() and the search for a slot, in the drain loop with the
\* loop's test
wake(s, c) ==
  LET cl == s.calls[c]
      s1 == [s EXCEPT !.calls[c].resolveSlot = FALSE]
  IN IF ~cl.resolveSlot THEN s
     ELSE IF cl.pc = "waitSlot" THEN streamLoop(tryDispatchPending(s1, c), c, TRUE)
     ELSE IF cl.pc = "drain" THEN drainLoop(s1, c)
     ELSE s1

\* onTaskDone(workerIdx, slotIdx, leafId, leafSize, dispatchTime, cv) of the
\* call that dispatched the task, as the reaction of the task's promise; an
\* exception of bubbleUp goes to the promise's catch, rejectRoot.
onTaskDone(s, task, cv) ==
  LET c == task.call
      cl == s.calls[c]
      inFlight == [cl.workerInFlight EXCEPT ![task.workerIndex] = @ - 1]
      cvMap == MapSet(cl.cvMap, task.leafId, cv)
      b == bubbleUp(s.nodeMap, cvMap, cl.root, task.leafId)
      s1 == [s EXCEPT !.slotInUse = SlotSet(@, task.slot, FALSE),
                      !.calls[c].workerInFlight = inFlight,
                      !.calls[c].cvMap = b.cvMap,
                      !.calls[c].root = b.root]
  IN IF b.threw THEN awaitRoot(rejectRoot(s1, c, TypeError), c)
     ELSE awaitRoot(wake(tryDispatchPending(s1, c), c), c)

\* the catch of a task's promise: rejectRoot(err)
onTaskFailed(s, task, err) == awaitRoot(rejectRoot(s, task.call, err), task.call)

\* ------------------------------------------------------------ operations
\* a Worker of this.#workers with its thread's state: ready (its init has
\* completed), buf (the SharedArrayBuffer it stored, 0: none), inbox (the
\* 'hash' messages it has not handled yet), taskHandler (onmessage is #handleWorkerMessage), errIdx (the index of
\* the onerror handler init installed on it, or NULL)
NewWorker(ready) ==
  [ready |-> ready, buf |-> 0, inbox |-> <<>>, taskHandler |-> ready, errIdx |-> NULL]

\* new SABStreamHasher(options)
Init ==
  /\ numWorkers \in WorkerCounts
  /\ chunkSize \in LeafSizes
  /\ initialized = FALSE
  /\ workers = <<>>
  /\ pendingTasks = {}
  /\ nextTaskId = 0
  /\ nodeMap = <<>>
  /\ numSlots = 0
  /\ slotInUse = <<>>
  /\ sab = <<>>
  /\ sabGen = 0
  /\ calls = <<>>
  /\ faults = 0

\* init() on a hasher in any state while no hashFile call is running: what
\* init does, whether or not the hasher is initialized already
HasherInitAny(bad) ==
  /\ \A c \in DOMAIN calls : calls[c].pc = "done"
  /\ Len(workers) + numWorkers <= MaxWorkerObjs
  /\ sabGen < MaxInits
  /\ LET started == [i \in 1..numWorkers |-> NewWorker(i \notin bad)]
         all == workers \o started
     IN /\ numSlots' = numWorkers * MAX_INFLIGHT_PER_WORKER
        /\ sabGen' = sabGen + 1
        /\ sab' = [i \in 0..(numSlots' - 1) |-> <<>>]
        /\ slotInUse' = [i \in 0..(numSlots' - 1) |-> FALSE]
        /\ IF bad = {}
           THEN /\ workers' = [i \in DOMAIN all |->
                                 [all[i] EXCEPT !.buf = sabGen',
                                                !.errIdx = IF i <= numWorkers
                                                           THEN i - 1 ELSE @]]
                /\ initialized' = TRUE
           ELSE /\ workers' = all
                /\ UNCHANGED initialized
  /\ UNCHANGED <<numWorkers, chunkSize, pendingTasks, nextTaskId, nodeMap, calls, faults>>

\* init(): the slot pool is made anew and the workers are started; when all
\* report ready they get the buffer, the first numWorkers Workers of the list
\* get the onerror handlers, and the hasher is initialized.  The workers in
\* bad do not become ready (error, error event or 10 s timeout): init rejects.
\* init is called on a hasher that is not initialized (new, after a failed
\* init, after terminate) and while no hashFile call is running.
HasherInit(bad) ==
  /\ ~initialized
  /\ HasherInitAny(bad)

\* the leaves of a call: what the dispatcher reads of a leaf node
LeafOf(node) == [id |-> node.id, offset |-> node.offset, size |-> node.size]

\* hash_single(new Uint8Array(await file.arrayBuffer())) on the main thread
hashOnMainThread(s, c, size) ==
  SetCall(s, c, [NewCall(c, size) EXCEPT !.result = Resolved(hash_single(c, size))])

\* variant of throwNotInitialized that goes on to hash
throwNothing(s, c, size) == hashOnMainThread(s, c, size)

\* throw new Error('SABStreamHasher not initialized. Call init() first.')
throwNotInitialized(s, c, size) ==
  SetCall(s, c, [NewCall(c, size) EXCEPT !.result = Rejected(NotInitializedError)])

\* variant of rootIsLeaf that sends a single-leaf plan to the workers
rootNeverLeaf(tree) == FALSE

\* root.type === 'leaf'
rootIsLeaf(tree) == tree.nodes[tree.root].type = "leaf"

\* hashFile(file) up to its first suspension, as call c on a file of size bytes
hashFileStart(s, c, size) ==
  IF ~initialized THEN throwNotInitialized(s, c, size)
  ELSE IF size < SMALL_INPUT THEN hashOnMainThread(s, c, size)
  ELSE
    LET tree == buildTree(0, size, 0, chunkSize)
        s1 == [s EXCEPT !.nodeMap = tree.nodes]
    IN IF rootIsLeaf(tree) THEN hashOnMainThread(s1, c, size)
       ELSE
         LET nodes == collectLeaves(tree.nodes, tree.root)
             free == [i \in DOMAIN s.slotInUse |-> FALSE]
             slot == findFreeSlot(free, numSlots)
         IN [s1 EXCEPT
               !.slotInUse = SlotSet(free, slot, TRUE),
               !.calls[c] = [NewCall(c, size) EXCEPT
                  !.pc = "read", !.piped = TRUE, !.reader = "locked",
                  !.leaves = [i \in DOMAIN nodes |-> LeafOf(nodes[i])],
                  !.workerInFlight = [w \in 0..(numWorkers - 1) |-> 0],
                  !.currentSlotIdx = slot]]

\* hashFile is called when no earlier call is still running
HashFile(size) ==
  /\ Len(calls) < MaxCalls
  /\ \A c \in DOMAIN calls : calls[c].pc = "done"
  /\ LET c == Len(calls) + 1
         old == [k \in DOMAIN calls |-> Collected(calls[k], pendingTasks)]
         s == [St EXCEPT !.calls = Append(old, NewCall(c, size))]
     IN Becomes(hashFileStart(s, c, size))
  /\ UNCHANGED <<numWorkers, chunkSize, initialized, numSlots, sabGen, faults>>

\* reader.read() delivers the next k bytes of the file
StreamRead(c, k) ==
  /\ calls[c].pc = "read"
  /\ calls[c].streamPos < calls[c].size
  /\ LET n == Min(k, calls[c].size - calls[c].streamPos)
         s == [St EXCEPT !.calls[c].chunkOff = calls[c].streamPos,
                         !.calls[c].chunkRem = n,
                         !.calls[c].streamPos = @ + n]
     IN Becomes(streamLoop(s, c, FALSE))
  /\ UNCHANGED <<numWorkers, chunkSize, initialized, numSlots, sabGen, faults>>

\* reader.read() reports done: the reader is released and the drain loop runs
StreamEOF(c) ==
  /\ calls[c].pc = "read"
  /\ calls[c].streamPos = calls[c].size
  /\ Becomes(drainLoop([St EXCEPT !.calls[c].reader = "released"], c))
  /\ UNCHANGED <<numWorkers, chunkSize, initialized, numSlots, sabGen, faults>>

\* reader.read() reports done before the stream has delivered file.size
\* bytes: the loop breaks as at any EOF, the reader is released and the drain
\* loop runs
StreamEOFEarly(c) ==
  /\ faults < MaxFaults
  /\ calls[c].pc = "read"
  /\ calls[c].streamPos < calls[c].size
  /\ Becomes(drainLoop([St EXCEPT !.calls[c].reader = "released"], c))
  /\ faults' = faults + 1
  /\ UNCHANGED <<numWorkers, chunkSize, initialized, numSlots, sabGen>>

\* the errors a stream may fail with
StreamErrors == {"reset", "aborted"}

\* variant of streamFailed that returns without the finally block
streamFailedKeepsLock(s, c, e) ==
  SetCall(s, c, Returned(s.calls[c], Rejected(StreamFailure(e))))

\* await reader.read() rejects with e: the finally block releases the reader
\* and hashFile rejects with e
streamFailed(s, c, e) ==
  SetCall(s, c, Returned([s.calls[c] EXCEPT !.reader = "released"],
                         Rejected(StreamFailure(e))))

\* a read of the stream of call c fails
StreamError(c, e) ==
  /\ faults < MaxFaults
  /\ calls[c].pc = "read"
  /\ Becomes(streamFailed(St, c, e))
  /\ faults' = faults + 1
  /\ UNCHANGED <<numWorkers, chunkSize, initialized, numSlots, sabGen>>

\* ------------------------------------------------------------ workers
\* new Uint8Array(storedSAB, offset, size) in a worker when the slot holds
\* held: the first size bytes of the slot; with no buffer stored, an empty
\* array; with a buffer the coordinator no longer writes, zero bytes
workerView(w, held, size) ==
  IF w.buf = 0 THEN <<>>
  ELSE IF w.buf = sabGen THEN ViewBytes(held, size)
  ELSE Zeros(size)

\* variant of workerReply without the test of ready
workerReplyAlwaysHashes(w, msg, held, throws) ==
  IF throws THEN <<"error", "hash_subtree">>
  ELSE <<"result", hash_subtree(workerView(w, held, msg.size), msg.fileOffset)>>

\* self.onmessage of the worker for a 'hash' message: the reply it posts
workerReply(w, msg, held, throws) ==
  IF ~w.ready THEN <<"error", "Worker not initialized">>
  ELSE IF throws THEN <<"error", "hash_subtree">>
  ELSE <<"result", hash_subtree(workerView(w, held, msg.size), msg.fileOffset)>>

\* self.onmessage of the worker thread w for a message of each type: the
\* worker's state after it and the messages it posts.  ok: init() succeeds;
\* held: what the worker reads in the slot; throws: hash_subtree fails.
workerOnMessage(w, type, data, ok, held, throws) ==
  IF type = "init"
  THEN IF ok THEN [w |-> [w EXCEPT !.ready = TRUE], out |-> << [type |-> "ready"] >>]
       ELSE [w |-> w, out |-> << [type |-> "error", error |-> "init"] >>]
  ELSE IF type = "buffer"
  THEN [w |-> [w EXCEPT !.buf = data], out |-> <<>>]
  ELSE IF type = "hash"
  THEN LET reply == workerReply(w, data, held, throws)
       IN [w |-> w,
           out |-> << IF reply[1] = "result"
                      THEN [type |-> "result", cv |-> reply[2], taskId |-> data.taskId]
                      ELSE [type |-> "error", error |-> reply[2], taskId |-> data.taskId] >>]
  ELSE [w |-> w, out |-> <<>>]

\* variant of handleWorkerMessage that leaves the task in the table
handleWorkerMessageKeepsTask(s, taskId, reply) ==
  IF ~\E t \in s.pendingTasks : t.id = taskId THEN s
  ELSE LET task == CHOOSE t \in s.pendingTasks : t.id = taskId
       IN IF reply[1] = "result" THEN onTaskDone(s, task, reply[2])
          ELSE onTaskFailed(s, task, TaskError(taskId))

\* #handleWorkerMessage(workerIndex, e): a reply for a task that is not
\* pending is dropped; else the task leaves the table and its promise settles
handleWorkerMessage(s, taskId, reply) ==
  IF ~\E t \in s.pendingTasks : t.id = taskId THEN s
  ELSE LET task == CHOOSE t \in s.pendingTasks : t.id = taskId
           s1 == [s EXCEPT !.pendingTasks = @ \ {task}]
       IN IF reply[1] = "result" THEN onTaskDone(s1, task, reply[2])
          ELSE onTaskFailed(s1, task, TaskError(taskId))

\* Worker i handles the oldest 'hash' message of its queue and the
\* coordinator receives the reply (throws: the primitive fails in the worker).
\* The worker has read the slot when it held one of msg.seen.  A Worker that
\* never reported ready still has init's onmessage, which settles no task.
WorkerReply(i, throws) ==
  /\ i \in DOMAIN workers
  /\ workers[i].inbox # <<>>
  /\ throws => faults < MaxFaults /\ workers[i].ready
  /\ LET msg == Head(workers[i].inbox)
         s == [St EXCEPT !.workers[i].inbox = Tail(@)]
     IN \E held \in msg.seen :
          Becomes(IF workers[i].taskHandler
                  THEN handleWorkerMessage(s, msg.taskId,
                                           workerReply(workers[i], msg, held, throws))
                  ELSE s)
  /\ faults' = IF throws THEN faults + 1 ELSE faults
  /\ UNCHANGED <<numWorkers, chunkSize, initialized, numSlots, sabGen>>

\* the rejections of a set of pending tasks with one error: each task's catch
\* rejects the root of its call
RECURSIVE rejectTasks(_, _, _)
rejectTasks(s, tasks, err) ==
  IF tasks = {} THEN s
  ELSE LET t == CHOOSE x \in tasks : \A y \in tasks : x.id <= y.id
       IN rejectTasks(onTaskFailed(s, t, err), tasks \ {t}, err)

\* variant of taskTimeout that rejects the task and leaves it in the table
taskTimeoutKeepsTask(s, taskId) ==
  LET task == CHOOSE t \in s.pendingTasks : t.id = taskId
  IN onTaskFailed(s, task, TimeoutError(taskId))

\* the timer callback of #dispatchTask for a pending task: the task leaves
\* the table and its promise rejects with the timeout error
taskTimeout(s, taskId) ==
  LET task == CHOOSE t \in s.pendingTasks : t.id = taskId
  IN onTaskFailed([s EXCEPT !.pendingTasks = @ \ {task}], task, TimeoutError(taskId))

\* the 30 s timer of a pending task fires
TaskTimeout(taskId) ==
  /\ faults < MaxFaults
  /\ \E t \in pendingTasks : t.id = taskId
  /\ Becomes(taskTimeout(St, taskId))
  /\ faults' = faults + 1
  /\ UNCHANGED <<numWorkers, chunkSize, initialized, numSlots, sabGen>>

\* variant of workerOnError that rejects the tasks of every worker
workerOnErrorAll(s, i) ==
  rejectTasks([s EXCEPT !.pendingTasks = {}], s.pendingTasks, WorkerFailure(i))

\* the onerror handler init installed for index i: every pending task routed
\* to i is rejected and leaves the table
workerOnError(s, i) ==
  LET mine == {t \in s.pendingTasks : t.workerIndex = i}
  IN rejectTasks([s EXCEPT !.pendingTasks = @ \ mine], mine, WorkerFailure(i))

\* an error event of the Worker that carries the handler of index i
WorkerError(w) ==
  /\ faults < MaxFaults
  /\ w \in DOMAIN workers
  /\ workers[w].errIdx # NULL
  /\ \E t \in pendingTasks : t.workerIndex = workers[w].errIdx
  /\ Becomes(workerOnError(St, workers[w].errIdx))
  /\ faults' = faults + 1
  /\ UNCHANGED <<numWorkers, chunkSize, initialized, numSlots, sabGen>>

\* variant of terminate that stops the workers and leaves the tasks pending
terminateWorkersOnly(s) == [s EXCEPT !.workers = <<>>]

\* variant of terminate that stops one worker at a call
terminateOneWorker(s) ==
  rejectTasks([s EXCEPT !.workers = IF @ = <<>> THEN @ ELSE Tail(@),
                        !.pendingTasks = {}],
              s.pendingTasks, TerminatedError)

\* terminate()
terminate(s) ==
  rejectTasks([s EXCEPT !.workers = <<>>, !.pendingTasks = {}],
              s.pendingTasks, TerminatedError)

Terminate ==
  /\ Becomes(terminate(St))
  /\ initialized' = FALSE
  /\ UNCHANGED <<numWorkers, chunkSize, numSlots, sabGen, faults>>

\* ------------------------------------------------------------ specification
Next ==
  \/ \E bad \in SUBSET (1..numWorkers) : HasherInit(bad)
  \/ \E size \in FileSizes : HashFile(size)
  \/ \E c \in DOMAIN calls : \E k \in ReadSizes : StreamRead(c, k)
  \/ \E c \in DOMAIN calls : StreamEOF(c)
  \/ \E c \in DOMAIN calls : StreamEOFEarly(c)
  \/ \E c \in DOMAIN calls : \E e \in StreamErrors : StreamError(c, e)
  \/ \E i \in 1..MaxWorkerObjs : \E throws \in BOOLEAN : WorkerReply(i, throws)
  \/ \E id \in 0..(nextTaskId - 1) : TaskTimeout(id)
  \/ \E w \in 1..MaxWorkerObjs : WorkerError(w)
  \/ Terminate

Spec == Init /\ [][Next]_vars

\* ------------------------------------------------------------ runs without failures
\* The hasher with every init succeeding, no task failing and no terminate,
\* over more plans: the stream goes on delivering until EOF and every worker
\* goes on handling its messages.
LiveLeafSizes == {16384, 32768, 65536}
LiveFileSizes == {1024, 65536, 65537, 98304}
LiveReadSizes == {16384, 40000, 98304}

InitLive ==
  /\ numWorkers \in WorkerCounts
  /\ chunkSize \in LiveLeafSizes
  /\ initialized = FALSE
  /\ workers = <<>>
  /\ pendingTasks = {}
  /\ nextTaskId = 0
  /\ nodeMap = <<>>
  /\ numSlots = 0
  /\ slotInUse = <<>>
  /\ sab = <<>>
  /\ sabGen = 0
  /\ calls = <<>>
  /\ faults = 0

StreamReads == \E c \in DOMAIN calls : \E k \in LiveReadSizes : StreamRead(c, k)
StreamEOFs == \E c \in DOMAIN calls : StreamEOF(c)

NextLive ==
  \/ HasherInit({})
  \/ \E size \in LiveFileSizes : HashFile(size)
  \/ StreamReads
  \/ StreamEOFs
  \/ \E i \in 1..MaxWorkerObjs : WorkerReply(i, FALSE)

SpecLive ==
  /\ InitLive /\ [][NextLive]_vars
  /\ WF_vars(StreamReads)
  /\ WF_vars(StreamEOFs)
  /\ \A i \in 1..MaxWorkerObjs : WF_vars(WorkerReply(i, FALSE))

\* ------------------------------------------------------------ the planner alone
\* The planner of hashFile (lines 173-175) on its own, for inputs of up to
\* MaxPlanChunks chunks, whole or with a partial last chunk, and for values
\* of max_leaf_size that are and are not powers of two.
MaxPlanChunks == 12
PlanLeafSizes == {1024, 2048, 3072, 4096, 8192}
PlanSizes ==
  {k * CHUNK_SIZE + d : k \in 0..MaxPlanChunks, d \in {0, 1, CHUNK_SIZE - 1}} \ {0}

InitPlan ==
  /\ numWorkers \in WorkerCounts
  /\ chunkSize \in PlanLeafSizes
  /\ initialized = FALSE
  /\ workers = <<>>
  /\ pendingTasks = {}
  /\ nextTaskId = 0
  /\ nodeMap = <<>>
  /\ numSlots = 0
  /\ slotInUse = <<>>
  /\ sab = <<>>
  /\ sabGen = 0
  /\ calls = <<>>
  /\ faults = 0

\* this.#nextNodeId = 0; this.#nodeMap = new Map(); this.#buildTree(0, size)
PlanTree(size) ==
  /\ nodeMap' = buildTree(0, size, 0, chunkSize).nodes
  /\ calls' = <<NewCall(1, size)>>
  /\ UNCHANGED <<numWorkers, chunkSize, initialized, workers, pendingTasks,
                 nextTaskId, numSlots, slotInUse, sab, sabGen, faults>>

NextPlan == \E size \in PlanSizes : PlanTree(size)

SpecPlan == InitPlan /\ [][NextPlan]_vars

\* ------------------------------------------------------------ any options
\* The hasher constructed with any options.chunkSize, in runs without
\* failures.  The constructor stores the value as it is given.
OptionLeafSizes == {0, 512, 33000, 32768, 65536}
OptionFileSizes == {1024, 65536}

\* max_leaf_size is a positive multiple of 1024
ValidLeafSize(n) == n > 0 /\ n % CHUNK_SIZE = 0

\* the stack overflow of a recursion that does not end
RangeError == <<"RangeError", 0>>

\* #buildTree(0, size) for size >= 1024 reaches a node of one chunk, 1024
\* bytes; with this.#chunkSize below 1024 that node is no leaf, and its left
\* part, left_subtree_len(1024) = 1024 bytes, is that node again
plannerEnds(chunkSz) == chunkSz >= CHUNK_SIZE

InitOptions ==
  /\ numWorkers \in WorkerCounts
  /\ chunkSize \in OptionLeafSizes
  /\ initialized = FALSE
  /\ workers = <<>>
  /\ pendingTasks = {}
  /\ nextTaskId = 0
  /\ nodeMap = <<>>
  /\ numSlots = 0
  /\ slotInUse = <<>>
  /\ sab = <<>>
  /\ sabGen = 0
  /\ calls = <<>>
  /\ faults = 0

\* hashFile(file) on a hasher of any options: where the planner does not end
\* the call rejects with the stack overflow, the node map left empty
HashFileOptions(size) ==
  IF ~initialized \/ size < SMALL_INPUT \/ plannerEnds(chunkSize)
  THEN HashFile(size)
  ELSE /\ Len(calls) < MaxCalls
       /\ \A c \in DOMAIN calls : calls[c].pc = "done"
       /\ calls' = Append([k \in DOMAIN calls |-> Collected(calls[k], pendingTasks)],
                          [NewCall(Len(calls) + 1, size) EXCEPT
                             !.result = Rejected(RangeError)])
       /\ nodeMap' = <<>>
       /\ UNCHANGED <<numWorkers, chunkSize, initialized, workers, pendingTasks,
                      nextTaskId, numSlots, slotInUse, sab, sabGen, faults>>

NextOptions ==
  \/ HasherInit({})
  \/ \E size \in OptionFileSizes : HashFileOptions(size)
  \/ StreamReads
  \/ StreamEOFs
  \/ \E i \in 1..MaxWorkerObjs : WorkerReply(i, FALSE)

SpecOptions == InitOptions /\ [][NextOptions]_vars

\* ------------------------------------------------------------ StreamingHasher
\* StreamingHasher.hashFile (src/streaming-hasher.js) with the streaming
\* worker (src/streaming-worker.js): every leaf of the plan is sent to a
\* worker as a message of its own with the leaf's bytes, and the CVs are
\* merged when all have come.  A message is a record; reading a property it
\* does not have gives undefined.
StreamingLeafSizes == {1024, 2048}
StreamingFileSizes == {1024, 2049, 3072, 4096}

Undefined == <<"undefined">>

\* e.data.name is not undefined
HasField(data, name) == name \in DOMAIN data

\* e.data.name
Field(data, name) == IF name \in DOMAIN data THEN data[name] ELSE Undefined

\* #dispatchBuffer of the earlier version of the hasher: the message it posts
dispatchBufferEarlier(taskId, buffer, inputOffset) ==
  [type |-> "hash", data |-> buffer, inputOffset |-> inputOffset, taskId |-> taskId]

\* #dispatchBuffer(workerIdx, buffer, inputOffset): the message it posts
dispatchBuffer(taskId, buffer, inputOffset) ==
  [type |-> "hash", data |-> buffer, offset |-> inputOffset,
   size |-> buffer[1][3], taskId |-> taskId]

\* self.onmessage of the streaming worker for a 'hash' message: its reply.
\* BigInt(undefined) throws a TypeError, which the catch turns into an error
\* reply.
streamingWorkerReply(ready, data) ==
  IF ~ready
  THEN [type |-> "error", error |-> "Worker not initialized",
        taskId |-> Field(data, "taskId")]
  ELSE IF ~HasField(data, "inputOffset")
  THEN [type |-> "error", error |-> "Cannot convert undefined to a BigInt",
        taskId |-> Field(data, "taskId")]
  ELSE [type |-> "result",
        cv |-> hash_subtree(Field(data, "data"), Field(data, "inputOffset")),
        taskId |-> Field(data, "taskId")]

InitStreaming ==
  /\ numWorkers \in WorkerCounts
  /\ chunkSize \in StreamingLeafSizes
  /\ initialized = FALSE
  /\ workers = <<>>
  /\ pendingTasks = {}
  /\ nextTaskId = 0
  /\ nodeMap = <<>>
  /\ numSlots = 0
  /\ slotInUse = <<>>
  /\ sab = <<>>
  /\ sabGen = 0
  /\ calls = <<>>
  /\ faults = 0

\* StreamingHasher.init() with every worker reporting ready
StreamingInit ==
  /\ ~initialized
  /\ workers' = [i \in 1..numWorkers |-> NewWorker(TRUE)]
  /\ initialized' = TRUE
  /\ UNCHANGED <<numWorkers, chunkSize, pendingTasks, nextTaskId, nodeMap, numSlots,
                 slotInUse, sab, sabGen, calls, faults>>

\* the messages of the leaves from position i on, leaf i to worker
\* i % numWorkers, with the task ids from nextTaskId on
RECURSIVE dispatchLeaves(_, _, _, _, _)
dispatchLeaves(ws, leaves, i, c, firstId) ==
  IF i > Len(leaves) THEN ws
  ELSE LET leaf == leaves[i]
           workerIdx == (i - 1) % numWorkers
           slice == << <<c, leaf.offset, leaf.size>> >>
           msg == dispatchBuffer(firstId + i - 1, slice, leaf.offset)
       IN dispatchLeaves([ws EXCEPT ![workerIdx + 1].inbox = Append(@, msg)],
                         leaves, i + 1, c, firstId)

\* StreamingHasher.hashFile(file) up to await Promise.all(cvPromises)
StreamingHashFile(size) ==
  /\ initialized
  /\ Len(calls) < MaxCalls
  /\ \A c \in DOMAIN calls : calls[c].pc = "done"
  /\ LET c == Len(calls) + 1
         tree == buildTree(0, size, 0, chunkSize)
         leaves == collectLeaves(tree.nodes, tree.root)
     IN IF size <= CHUNK_SIZE
        THEN /\ calls' = Append(calls, [NewCall(c, size) EXCEPT
                                          !.result = Resolved(hash_single(c, size))])
             /\ UNCHANGED <<nodeMap, workers, pendingTasks, nextTaskId>>
        ELSE IF rootIsLeaf(tree)
        THEN /\ calls' = Append(calls, [NewCall(c, size) EXCEPT
                                          !.result = Resolved(hash_single(c, size))])
             /\ nodeMap' = tree.nodes
             /\ UNCHANGED <<workers, pendingTasks, nextTaskId>>
        ELSE /\ calls' = Append(calls, [NewCall(c, size) EXCEPT
                                          !.pc = "awaitAll", !.piped = TRUE,
                                          !.leaves = [i \in DOMAIN leaves |-> LeafOf(leaves[i])]])
             /\ nodeMap' = tree.nodes
             /\ workers' = dispatchLeaves(workers, leaves, 1, c, nextTaskId)
             /\ pendingTasks' = pendingTasks \cup
                  {[id |-> nextTaskId + i - 1, workerIndex |-> (i - 1) % numWorkers,
                    call |-> c, slot |-> NULL, leafId |-> leaves[i].id] :
                     i \in DOMAIN leaves}
             /\ nextTaskId' = nextTaskId + Len(leaves)
  /\ UNCHANGED <<numWorkers, chunkSize, initialized, numSlots, slotInUse, sab, sabGen,
                 faults>>

\* Worker i handles the oldest message of its queue; #handleWorkerMessage
\* settles the task: the CV is kept for the merge, which runs when every
\* leaf has one; an error reply rejects Promise.all and with it hashFile
StreamingWorkerReply(i) ==
  /\ i \in DOMAIN workers
  /\ workers[i].inbox # <<>>
  /\ LET data == Head(workers[i].inbox)
         reply == streamingWorkerReply(workers[i].ready, data)
         known == \E t \in pendingTasks : t.id = reply.taskId
         task == CHOOSE t \in pendingTasks : t.id = reply.taskId
         c == task.call
         cvMap == MapSet(calls[c].cvMap, task.leafId, reply.cv)
         all == \A k \in DOMAIN calls[c].leaves : calls[c].leaves[k].id \in DOMAIN cvMap
     IN /\ workers' = [workers EXCEPT ![i].inbox = Tail(@)]
        /\ IF ~known THEN UNCHANGED <<pendingTasks, calls>>
           ELSE /\ pendingTasks' = pendingTasks \ {task}
                /\ IF calls[c].pc = "done" THEN UNCHANGED calls
                   ELSE IF reply.type = "result"
                   THEN calls' = [calls EXCEPT ![c] =
                          IF all
                          THEN [@ EXCEPT !.cvMap = cvMap, !.pc = "done",
                                  !.result = Resolved(mergeTree(nodeMap, 0, cvMap, TRUE))]
                          ELSE [@ EXCEPT !.cvMap = cvMap]]
                   ELSE calls' = [calls EXCEPT ![c] =
                          [@ EXCEPT !.pc = "done",
                                    !.result = Rejected(TaskError(reply.taskId))]]
  /\ UNCHANGED <<numWorkers, chunkSize, initialized, nextTaskId, nodeMap, numSlots,
                 slotInUse, sab, sabGen, faults>>

NextStreaming ==
  \/ StreamingInit
  \/ \E size \in StreamingFileSizes : StreamingHashFile(size)
  \/ \E i \in 1..MaxWorkerObjs : StreamingWorkerReply(i)

SpecStreaming == InitStreaming /\ [][NextStreaming]_vars

\* ------------------------------------------------------------ init at any time
\* The hasher with init() called also when it is initialized already, while
\* no hashFile call is running.
HasherReinit(bad) ==
  /\ initialized
  /\ HasherInitAny(bad)

NextReinit ==
  \/ Next
  \/ \E bad \in SUBSET (1..numWorkers) : HasherReinit(bad)

SpecReinit == Init /\ [][NextReinit]_vars

\* ------------------------------------------------------------ properties
\* the CVs the workers return for the leaves of a plan when each slot holds
\* the bytes of its leaf
LeafCvs(nodes, f) ==
  [k \in {i \in DOMAIN nodes : nodes[i].type = "leaf"} |->
     hash_subtree(<< <<f, nodes[k].offset, nodes[k].size>> >>, nodes[k].offset)]

\* the digest of the n bytes of file f under max_leaf_size chunkSz, with the
\* leaves hashed and merged one after the other
PlanDigest(f, n, chunkSz) ==
  LET tree == buildTree(0, n, 0, chunkSz)
  IN IF n < SMALL_INPUT \/ rootIsLeaf(tree) THEN hash_single(f, n)
     ELSE mergeTree(tree.nodes, tree.root, LeafCvs(tree.nodes, f), TRUE)

\* C1: every digest hashFile resolves with is hash_single of the whole input,
\* whatever the input's length and the chunks the stream delivered it in.
C1_DigestIsReference ==
  \A c \in DOMAIN calls :
    calls[c].result.st = "resolved" => calls[c].result.v = hash_single(c, calls[c].size)

\* C2: for a given input and configuration the digest of a call that went
\* through the workers does not depend on the order of the replies: it is the
\* digest the leaf CVs give when merged in leaf order.
C2_ReplyOrderInvariant ==
  \A c \in DOMAIN calls :
    calls[c].piped /\ calls[c].result.st = "resolved" =>
      LET tree == buildTree(0, calls[c].size, 0, chunkSize)
      IN calls[c].result.v =
           mergeTree(tree.nodes, tree.root, LeafCvs(tree.nodes, c), TRUE)

\* C3: the digest of an input does not depend on the configuration: a call's
\* digest is the digest of the same input under every other max_leaf_size
\* (the worker count does not enter the plan).
C3_ConfigInvariant ==
  \A c \in DOMAIN calls : \A chunkSz \in LeafSizes :
    calls[c].result.st = "resolved" =>
      calls[c].result.v = PlanDigest(c, calls[c].size, chunkSz)

\* the 'hash' messages no worker has handled yet, as <<worker, position>>
Outstanding ==
  UNION {{<<i, k>> : k \in DOMAIN workers[i].inbox} : i \in DOMAIN workers}

\* C6: no two outstanding hash tasks refer to the same slot of the shared
\* buffer, in any state of a hasher, calls after a failed call included.
C6_SlotExclusive ==
  \A a, b \in Outstanding :
    a # b => workers[a[1]].inbox[a[2]].offset # workers[b[1]].inbox[b[2]].offset

\* the latest call: the node map holds its plan
LastCall == calls[Len(calls)]

\* C4: in a run over a multi-leaf tree the CV of the root is root_hash of the
\* CVs of the root's children and the CV of every other inner node is
\* parent_cv of its children's; the digest returned is that root_hash output,
\* the one #mergeTree gives on the same leaf CVs.
C4_RootHashAtRootOnly ==
  (calls # <<>> /\ LastCall.piped) =>
    LET cvMap == LastCall.cvMap
        merged(k) == IF nodeMap[k].parentId = NULL
                     THEN root_hash(MapGet(cvMap, nodeMap[k].leftId),
                                    MapGet(cvMap, nodeMap[k].rightId))
                     ELSE parent_cv(MapGet(cvMap, nodeMap[k].leftId),
                                    MapGet(cvMap, nodeMap[k].rightId))
    IN /\ \A k \in DOMAIN cvMap : nodeMap[k].type = "node" => cvMap[k] = merged(k)
       /\ LastCall.result.st = "resolved" =>
            /\ LastCall.result.v = merged(0)
            /\ LastCall.result.v = mergeTree(nodeMap, 0, cvMap, TRUE)

\* a run has resolved over a tree with an inner node below the root
C4_Witness ==
  /\ calls # <<>> /\ LastCall.piped /\ LastCall.result.st = "resolved"
  /\ \E k \in DOMAIN LastCall.cvMap :
       nodeMap[k].type = "node" /\ nodeMap[k].parentId # NULL

\* no 'hash' message covers the whole input of a call that went to the workers
NoWholeInputTask ==
  \A p \in Outstanding : \A c \in DOMAIN calls :
    calls[c].piped => workers[p[1]].inbox[p[2]].size < calls[c].size

\* C5: a hashFile call on an initialized hasher with size < 65536, or with a
\* plan that is a single leaf, resolves with hash_single of the whole input
\* and dispatches no task; no task ever covers the whole input.
C5_Bypass ==
  [][/\ Len(calls') > Len(calls) /\ initialized =>
          LET c == Len(calls')
              size == calls'[c].size
          IN (size < SMALL_INPUT \/ IsLeafSize(0, size, chunkSize)) =>
               /\ calls'[c].result = Resolved(hash_single(c, size))
               /\ ~calls'[c].piped
               /\ nextTaskId' = nextTaskId
               /\ pendingTasks' = pendingTasks
               /\ workers' = workers
     /\ NoWholeInputTask']_vars

\* one call has taken the shortcut below 65536 bytes, another the single-leaf one
C5_Witness ==
  /\ \E c \in DOMAIN calls :
       calls[c].size < SMALL_INPUT /\ calls[c].result.st = "resolved"
  /\ \E c \in DOMAIN calls :
       /\ calls[c].size >= SMALL_INPUT /\ ~calls[c].piped
       /\ calls[c].result.st = "resolved"

\* the errors a failed task rejects with
TaskFailures == {"TaskError", "TaskTimeout", "WorkerFailure"}

\* C7: a call one of whose tasks has failed does not stay pending forever.  A
\* call suspended on resolveSlot is resumed only by the completion of one of
\* its own tasks, so on a hasher that has not been terminated such a call
\* still has a task in the pending-task table.
C7_FailedCallResumes ==
  \A c \in DOMAIN calls :
    (/\ initialized
     /\ calls[c].pc \in {"waitSlot", "drain"}
     /\ calls[c].root.st = "rejected"
     /\ calls[c].root.v[1] \in TaskFailures) =>
      \E t \in pendingTasks : t.call = c

\* C9: hashFile on a hasher that is not initialized (no successful init yet,
\* or terminated since) rejects with NotInitialized, reads nothing of the
\* stream, dispatches no task and leaves the slot pool, the pending-task
\* table, the workers and the node map as they are.
C9_NotInitialized ==
  [][Len(calls') > Len(calls) /\ ~initialized =>
       LET c == Len(calls') IN
       /\ calls'[c].result = Rejected(NotInitializedError)
       /\ calls'[c].pc = "done" /\ calls'[c].streamPos = 0 /\ ~calls'[c].piped
       /\ UNCHANGED <<pendingTasks, nextTaskId, slotInUse, sab, workers, nodeMap,
                      numSlots, sabGen, initialized>>]_vars

\* a call has been refused after terminate, on a hasher that hashed before
C9_Witness ==
  \E c, d \in DOMAIN calls :
    /\ d < c /\ calls[d].piped
    /\ calls[c].result = Rejected(NotInitializedError)
    /\ ~initialized /\ workers = <<>>

\* C10: terminate leaves no worker, an empty pending-task table and an
\* uninitialized hasher, the call of every task that was pending has its root
\* rejected (with the terminated error unless it had failed before), and only
\* init makes the hasher initialized again.
C10_TerminatePost ==
  [][/\ ((workers # <<>> /\ workers' = <<>>) \/ (initialized /\ ~initialized')) =>
          /\ workers' = <<>>
          /\ pendingTasks' = {}
          /\ ~initialized'
          /\ \A t \in pendingTasks :
               /\ calls'[t.call].root.st = "rejected"
               /\ calls[t.call].root.st = "pending" =>
                    calls'[t.call].root = Rejected(TerminatedError)
     /\ (~initialized /\ initialized') => sabGen' = sabGen + 1]_vars

\* terminate has rejected the tasks of a running call
C10_Witness ==
  /\ ~initialized /\ workers = <<>> /\ pendingTasks = {}
  /\ \E c \in DOMAIN calls : calls[c].root = Rejected(TerminatedError)

\* what is left to do of the latest call: the bytes not yet read or copied,
\* the EOF not yet seen, the leaves without a CV
Variant ==
  LET cl == LastCall
      leafIds == {k \in DOMAIN nodeMap : nodeMap[k].type = "leaf"}
  IN IF cl.pc = "done" THEN 0
     ELSE (cl.size - cl.streamPos) + cl.chunkRem
          + (IF cl.pc \in {"read", "waitSlot"} THEN 1 ELSE 0)
          + Cardinality(leafIds \ DOMAIN cl.cvMap)

\* the latest call can go on: its next read is due, or the worker of one of
\* its pending tasks has the task's message to handle
CanGoOn ==
  \/ LastCall.pc = "read"
  \/ \E t \in pendingTasks : \E p \in Outstanding :
       /\ t.call = Len(calls) /\ p[1] = t.workerIndex + 1
       /\ workers[p[1]].inbox[p[2]].taskId = t.id
       /\ workers[p[1]].ready /\ workers[p[1]].taskHandler

\* C8: in a run without failures whose stream delivers the whole input and
\* then EOF and whose workers reply to every task, a call resolves with a
\* digest and never deadlocks on resolveSlot, however many leaves the plan has
\* for the slots there are: a running call can always go on (a read or a
\* reply is due, which the fairness of SpecLive makes happen), every step of a
\* running call brings it nearer to its end, and it ends resolved.
C8_EventuallyResolves ==
  [][/\ (calls # <<>> /\ LastCall.pc # "done") =>
          /\ Len(calls') = Len(calls)
          /\ Variant' < Variant
          /\ Variant' >= 0
     /\ (calls' # <<>> /\ LastCall'.pc # "done") => CanGoOn'
     /\ \A c \in DOMAIN calls' :
          calls'[c].pc = "done" /\ calls'[c].piped => calls'[c].result.st = "resolved"]_vars

\* a call whose plan has more leaves than the hasher has slots has resolved
C8_Witness ==
  /\ calls # <<>> /\ LastCall.piped /\ LastCall.result.st = "resolved"
  /\ Len(collectLeaves(nodeMap, 0)) > numSlots

\* C11: terminate completes from every state of the hasher (never initialized,
\* initialized, hashing, after a failure, terminated), and a second terminate
\* leaves the state as the first one left it.
C11_TerminateIdempotent ==
  LET once == terminate(St)
  IN /\ once.workers = <<>>
     /\ once.pendingTasks = {}
     /\ terminate(once) = once

\* terminate has run on a hasher one of whose workers had crashed in a job
C11_Witness ==
  /\ ~initialized /\ workers = <<>> /\ sabGen > 0
  /\ \E c \in DOMAIN calls : calls[c].root.st = "rejected" /\ calls[c].root.v[1] = "WorkerFailure"

\* C12: the timeout of a pending task takes the task out of the pending-task
\* table and rejects it with the timeout error of its task id (which rejects
\* the root of its call), leaves every worker and its queue as they are, and
\* a result or error reply for that task id that arrives later changes nothing.
C12_TimeoutDropsTask ==
  \A t \in pendingTasks :
    LET s == taskTimeout(St, t.id)
    IN /\ s.pendingTasks = pendingTasks \ {t}
       /\ t \notin s.pendingTasks
       /\ calls[t.call].root.st = "pending" =>
            s.calls[t.call].root = Rejected(TimeoutError(t.id))
       /\ s.workers = workers
       /\ handleWorkerMessage(s, t.id, <<"result", CV(t.call, 0, 0, CHUNK_SIZE)>>) = s
       /\ handleWorkerMessage(s, t.id, <<"error", "hash_subtree">>) = s

\* a task has timed out on a hasher that was not terminated since, and its
\* worker has handled the task's message afterwards
C12_Witness ==
  /\ initialized /\ sabGen = 1
  /\ \E c \in DOMAIN calls :
       /\ calls[c].root.st = "rejected" /\ calls[c].root.v[1] = "TaskTimeout"
       /\ \A p \in Outstanding : workers[p[1]].inbox[p[2]].taskId # calls[c].root.v[2]

\* C13: the timeout of a pending task releases the slot of the task: after
\* the timer callback the slot is free in the slot pool.
C13_TimeoutReleasesSlot ==
  \A t \in pendingTasks :
    t.slot \in DOMAIN slotInUse => ~taskTimeout(St, t.id).slotInUse[t.slot]

\* C14: the error handler of worker index i rejects the pending tasks routed
\* to i with the failure of worker i (which rejects the roots of their calls)
\* and takes them out of the table; the tasks routed to other workers stay in
\* the table as they are, and the workers and the slot pool are not touched.
C14_WorkerErrorRejectsItsTasks ==
  \A i \in 0..(numWorkers - 1) :
    LET s == workerOnError(St, i)
        mine == {t \in pendingTasks : t.workerIndex = i}
    IN /\ s.pendingTasks = pendingTasks \ mine
       /\ \A t \in mine :
            calls[t.call].root.st = "pending" =>
              s.calls[t.call].root = Rejected(WorkerFailure(i))
       /\ \A c \in DOMAIN calls :
            (~\E t \in mine : t.call = c) => s.calls[c] = calls[c]
       /\ s.workers = workers /\ s.slotInUse = slotInUse

\* the error of one worker has failed a call while a task routed to the other
\* worker is still pending
C14_Witness ==
  \E c \in DOMAIN calls :
    /\ calls[c].root.st = "rejected" /\ calls[c].root.v[1] = "WorkerFailure"
    /\ \E t \in pendingTasks : t.call = c /\ t.workerIndex # calls[c].root.v[2]

\* C15: an init one of whose workers does not become ready leaves the hasher
\* uninitialized and without started workers, so that on an initialized
\* hasher every worker tasks are routed to has reported ready.
C15_FailedInitStopsWorkers ==
  /\ ~initialized => workers = <<>>
  /\ initialized => \A i \in 1..numWorkers : workers[i].ready

\* a step in which call c, which went to the workers, returns its digest
ReturnsDigest(c) ==
  /\ calls[c].piped
  /\ calls[c].result.st # "resolved"
  /\ calls'[c].result.st = "resolved"

\* the leaves of a node map
LeafIds(nodes) == {k \in DOMAIN nodes : nodes[k].type = "leaf"}

\* C16, with the whole table: when a multi-leaf call returns its digest its CV map has
\* 2 * num_leaves - 1 entries and the pending-task table is empty.
C16_TableEmptyAtReturn ==
  [][\A c \in DOMAIN calls :
       ReturnsDigest(c) =>
         /\ Cardinality(DOMAIN calls'[c].cvMap) = 2 * Cardinality(LeafIds(nodeMap')) - 1
         /\ pendingTasks' = {}]_vars

\* C16: when a multi-leaf call returns its digest its CV map has one entry for
\* each node of the planned tree, 2 * num_leaves - 1 in all, and the
\* pending-task table holds no task of that call (tasks of an earlier call
\* that failed may still be pending).
C16_NoOwnTaskAtReturn ==
  [][\A c \in DOMAIN calls :
       ReturnsDigest(c) =>
         /\ DOMAIN calls'[c].cvMap = DOMAIN nodeMap'
         /\ Cardinality(DOMAIN calls'[c].cvMap) = 2 * Cardinality(LeafIds(nodeMap')) - 1
         /\ \A t \in pendingTasks' : t.call # c]_vars

\* a call has returned its digest while a task of an earlier call is pending
C16_Witness ==
  /\ calls # <<>> /\ LastCall.piped /\ LastCall.result.st = "resolved"
  /\ Cardinality(DOMAIN LastCall.cvMap) = 2 * Cardinality(LeafIds(nodeMap)) - 1
  /\ pendingTasks # {}

\* the calls suspended on resolveSlot: in the stream loop waiting for a free
\* slot, or in the drain loop after EOF
WaitsOnSlot(c) == calls[c].pc \in {"waitSlot", "drain"}

\* C17: a call is suspended on resolveSlot only while every slot of the pool
\* is held and every worker has MAX_INFLIGHT_PER_WORKER tasks in flight.
C17_BlocksOnlyWhenFull ==
  \A c \in DOMAIN calls :
    WaitsOnSlot(c) =>
      /\ \A i \in DOMAIN slotInUse : slotInUse[i]
      /\ \A w \in DOMAIN calls[c].workerInFlight :
           calls[c].workerInFlight[w] = MAX_INFLIGHT_PER_WORKER

\* the inner nodes of a node map
InnerIds(nodes) == {k \in DOMAIN nodes : nodes[k].type = "node"}

\* C18: every inner node of a planned tree covers its two children: its size
\* is the sum of theirs, it starts where the left child starts, the right
\* child starts where the left child ends, and the left child has
\* left_subtree_len of the node's size.
C18_InnerNodeSplit ==
  \A k \in InnerIds(nodeMap) :
    LET n == nodeMap[k]
        left == nodeMap[n.leftId]
        right == nodeMap[n.rightId]
    IN /\ n.size = left.size + right.size
       /\ n.offset = left.offset
       /\ right.offset = left.offset + left.size
       /\ left.size = left_subtree_len(n.size)

\* a tree has been planned with an inner node below the root whose children
\* differ in size
C18_Witness ==
  \E k \in InnerIds(nodeMap) :
    /\ nodeMap[k].parentId # NULL
    /\ nodeMap[nodeMap[k].leftId].size # nodeMap[nodeMap[k].rightId].size

\* C19: every leaf of a tree planned for an input of at least one byte starts
\* at a multiple of 1024, has between 1 and max_leaf_size bytes and no more
\* than maxSubtreeLen of its offset; the planner ends, with fewer nodes than
\* twice the chunks of the input.
C19_LeafBounds ==
  calls # <<>> =>
    /\ \A k \in LeafIds(nodeMap) :
         /\ nodeMap[k].offset % 1024 = 0
         /\ 1 <= nodeMap[k].size /\ nodeMap[k].size <= chunkSize
         /\ nodeMap[k].size <= maxSubtreeLen(nodeMap[k].offset)
    /\ Cardinality(DOMAIN nodeMap)
         < 2 * ((LastCall.size + CHUNK_SIZE - 1) \div CHUNK_SIZE)

\* a tree has been planned with a leaf of max_leaf_size bytes, three chunks,
\* that does not start at 0
C19_Witness ==
  \E k \in LeafIds(nodeMap) :
    nodeMap[k].offset > 0 /\ nodeMap[k].size = chunkSize /\ chunkSize = 3 * CHUNK_SIZE

\* C20: a planned tree has one node without parent, the root, which covers
\* the whole input; every other node is the left or right child of its
\* parent; the leaves, left to right, start at 0, each one where the one
\* before ends, the last one ending at the input's size.
C20_TreeShape ==
  calls # <<>> =>
    LET leaves == collectLeaves(nodeMap, 0)
    IN /\ {k \in DOMAIN nodeMap : nodeMap[k].parentId = NULL} = {0}
       /\ nodeMap[0].offset = 0 /\ nodeMap[0].size = LastCall.size
       /\ \A k \in DOMAIN nodeMap \ {0} :
            /\ nodeMap[k].parentId \in InnerIds(nodeMap)
            /\ k \in {nodeMap[nodeMap[k].parentId].leftId,
                       nodeMap[nodeMap[k].parentId].rightId}
       /\ Len(leaves) = Cardinality(LeafIds(nodeMap))
       /\ leaves[1].offset = 0
       /\ \A i \in 1..(Len(leaves) - 1) :
            /\ leaves[i].offset < leaves[i + 1].offset
            /\ leaves[i + 1].offset = leaves[i].offset + leaves[i].size
       /\ leaves[Len(leaves)].offset + leaves[Len(leaves)].size = LastCall.size

\* a tree of five leaves or more has been planned for an input that ends
\* with a chunk of one byte
C20_Witness ==
  /\ calls # <<>> /\ LastCall.size % CHUNK_SIZE = 1
  /\ Cardinality(LeafIds(nodeMap)) >= 5

\* C21: when a read of the stream fails with e, in whatever state the call's
\* tasks and root are, the call rejects with e itself and has released the
\* reader; no call that has ended still holds the lock on its stream.
C21_StreamErrorSurfaces ==
  /\ \A c \in DOMAIN calls : \A e \in StreamErrors :
       calls[c].pc = "read" =>
         LET s == streamFailed(St, c, e)
         IN /\ s.calls[c].pc = "done"
            /\ s.calls[c].result = Rejected(StreamFailure(e))
            /\ s.calls[c].reader = "released"
            /\ s.pendingTasks = pendingTasks /\ s.slotInUse = slotInUse
  /\ \A c \in DOMAIN calls : calls[c].pc = "done" => calls[c].reader # "locked"

\* a call has rejected with the error of its stream while one of its tasks
\* is at a worker
C21_Witness ==
  \E c \in DOMAIN calls :
    /\ calls[c].result.st = "rejected" /\ calls[c].result.v[1] = "StreamError"
    /\ calls[c].reader = "released"
    /\ \E t \in pendingTasks : t.call = c

\* C23: a call whose stream ended before delivering the whole input does not
\* stay pending forever: while it awaits its root with the root unsettled,
\* one of its tasks is still pending, whose outcome can settle the root.
C23_ShortStreamEnds ==
  \A c \in DOMAIN calls :
    (/\ calls[c].pc = "awaitRoot"
     /\ calls[c].streamPos < calls[c].size
     /\ calls[c].root.st = "pending") =>
      \E t \in pendingTasks : t.call = c

\* C22: on a hasher whose max_leaf_size is not a positive multiple of 1024 no
\* input is hashed: no hashFile call goes to the workers with a plan made for
\* such a max_leaf_size, and none returns a digest.
C22_InvalidOptionsRejected ==
  ~ValidLeafSize(chunkSize) =>
    \A c \in DOMAIN calls : ~calls[c].piped /\ calls[c].result.st # "resolved"

\* C24: while a call runs, an entry of its CV map, of a leaf or of an inner
\* node, stays as it was first written: no step writes over it.
C24_CvWrittenOnce ==
  [][\A c \in DOMAIN calls :
       calls[c].pc # "done" =>
         \A k \in DOMAIN calls[c].cvMap :
           /\ k \in DOMAIN calls'[c].cvMap
           /\ calls'[c].cvMap[k] = calls[c].cvMap[k]]_vars

\* a running call has the CVs of a leaf and of an inner node in its CV map
C24_Witness ==
  /\ calls # <<>> /\ LastCall.pc # "done"
  /\ DOMAIN LastCall.cvMap \cap LeafIds(nodeMap) # {}
  /\ DOMAIN LastCall.cvMap \cap InnerIds(nodeMap) # {}

\* the inner nodes a call has merged
Merged(cl, nodes) == DOMAIN cl.cvMap \cap InnerIds(nodes)

\* C25: an inner node is merged only when both its children have their CVs,
\* it is merged once (a merged node keeps its CV), and a call that returns a
\* digest over num_leaves leaves has made num_leaves - 1 merges.
C25_MergeWhenBothReady ==
  [][(calls # <<>> /\ Len(calls') = Len(calls) /\ LastCall.piped) =>
       LET c == Len(calls) IN
       /\ \A k \in Merged(calls'[c], nodeMap') :
            /\ nodeMap'[k].leftId \in DOMAIN calls'[c].cvMap
            /\ nodeMap'[k].rightId \in DOMAIN calls'[c].cvMap
       /\ \A k \in Merged(calls[c], nodeMap) :
            k \in Merged(calls'[c], nodeMap') /\ calls'[c].cvMap[k] = calls[c].cvMap[k]
       /\ ReturnsDigest(c) =>
            Cardinality(Merged(calls'[c], nodeMap')) = Cardinality(LeafIds(nodeMap')) - 1]_vars

\* a call over three leaves has returned its digest after two merges
C25_Witness ==
  /\ calls # <<>> /\ LastCall.piped /\ LastCall.result.st = "resolved"
  /\ Cardinality(LeafIds(nodeMap)) = 3
  /\ Cardinality(Merged(LastCall, nodeMap)) = 2

\* C26: the root of a call's tree gets its CV, the output of root_hash, once,
\* when both children of the root and so all leaves have theirs; the root
\* promise is resolved with that output and with nothing else, and once
\* resolved stays as it is.
C26_RootHashOnce ==
  [][(calls # <<>> /\ Len(calls') = Len(calls) /\ LastCall.piped) =>
       LET c == Len(calls)
           cvMap == calls'[c].cvMap
       IN /\ 0 \in DOMAIN cvMap =>
               /\ LeafIds(nodeMap') \subseteq DOMAIN cvMap
               /\ nodeMap'[0].leftId \in DOMAIN cvMap
               /\ nodeMap'[0].rightId \in DOMAIN cvMap
               /\ cvMap[0] = root_hash(cvMap[nodeMap'[0].leftId], cvMap[nodeMap'[0].rightId])
               /\ calls'[c].root = Resolved(cvMap[0])
          /\ calls'[c].root.st = "resolved" => 0 \in DOMAIN cvMap
          /\ 0 \in DOMAIN calls[c].cvMap =>
               0 \in DOMAIN cvMap /\ cvMap[0] = calls[c].cvMap[0]
          /\ calls[c].root.st = "resolved" => calls'[c].root = calls[c].root]_vars

\* the root promise of a call over three leaves is resolved
C26_Witness ==
  /\ calls # <<>> /\ LastCall.piped /\ LastCall.root.st = "resolved"
  /\ 0 \in DOMAIN LastCall.cvMap
  /\ Cardinality(LeafIds(nodeMap)) = 3

\* the tasks dispatched in a step
Dispatched == pendingTasks' \ pendingTasks

C28_InFlightIsOutstanding ==
  \A c \in DOMAIN calls :
    calls[c].pc # "done" =>
      \A w \in DOMAIN calls[c].workerInFlight :
        calls[c].workerInFlight[w] =
          Cardinality({t \in pendingTasks : t.call = c /\ t.workerIndex = w})

\* the call is filling a slot: suspended in reader.read() with a leaf to fill
Filling(c) == calls[c].pc = "read" /\ calls[c].currentLeafIdx < Len(calls[c].leaves)

\* the slots a call holds that no worker has been handed: the slot being
\* filled and the filled entries of pendingDispatches
Unhanded(c) == Len(calls[c].pendingDispatches) + (IF Filling(c) THEN 1 ELSE 0)

\* the slots of a call's tasks in flight
InFlightSlots(c) == Cardinality({t \in pendingTasks : t.call = c})

C29_OneSlotUnhanded ==
  \A c \in DOMAIN calls :
    calls[c].pc # "done" =>
      /\ Unhanded(c) <= 1
      /\ Filling(c) => calls[c].pendingDispatches = <<>>
      /\ Unhanded(c) = 1 => InFlightSlots(c) <= numSlots - 1
      /\ Unhanded(c) + InFlightSlots(c) <= numSlots

\* C30: the slot of a task that is outstanding at a worker is marked in use
\* while the task is pending, and is not written to: all the worker can read
\* from it is the bytes of the leaf the task was dispatched for.
C30_SlotOwnedByTask ==
  \A p \in Outstanding :
    LET m == workers[p[1]].inbox[p[2]]
        slot == m.offset \div chunkSize
    IN /\ (\E t \in pendingTasks : t.id = m.taskId) => slotInUse[slot]
       /\ \E f \in DOMAIN calls : \A held \in m.seen :
            ViewBytes(held, m.size) = << <<f, m.fileOffset, m.size>> >>

\* the 'hash' messages in the workers' queues after a step
Posted == UNION {{workers'[i].inbox[k] : k \in DOMAIN workers'[i].inbox} : i \in DOMAIN workers'}

\* the bytes [offset, offset + size) of the file of call c
FileBytes(c, offset, size) == << <<c, offset, size>> >>

\* the offset in the file up to which a call has filled leaves
FillPos(cl) ==
  IF cl.currentLeafIdx < Len(cl.leaves)
  THEN cl.leaves[cl.currentLeafIdx + 1].offset + (IF cl.pc = "read" THEN cl.leafFilled ELSE 0)
  ELSE cl.size

\* C31: the leaves are filled one at a time in increasing offset order (the
\* leaf being filled starts where the one before it ends and is filled up to
\* the bytes taken from the stream), and a leaf queued in a step is queued
\* with its slot holding the bytes [leaf.offset, leaf.offset + leaf.size) of
\* the file: its 'hash' message, posted in that step, has seen the slot
\* holding those.
C31_FillInOrder ==
  [][\A c \in DOMAIN calls :
       (c \in DOMAIN calls' /\ calls[c].pc \in {"read", "waitSlot"}) =>
         LET cl == calls[c]
             nx == calls'[c]
         IN /\ nx.pc \in {"read", "waitSlot"} =>
                 /\ nx.currentLeafIdx >= cl.currentLeafIdx
                 /\ FillPos(nx) = nx.streamPos - nx.chunkRem
                 /\ \A k \in 1..(Len(nx.leaves) - 1) :
                      nx.leaves[k + 1].offset = nx.leaves[k].offset + nx.leaves[k].size
            /\ \A t \in Dispatched : \A m \in Posted :
                 (t.call = c /\ m.taskId = t.id /\ nx.pc # "done") =>
                   \E k \in DOMAIN cl.leaves :
                     /\ cl.leaves[k].id = t.leafId
                     /\ m.fileOffset = cl.leaves[k].offset
                     /\ m.size = cl.leaves[k].size
                     /\ \E held \in m.seen :
                          ViewBytes(held, m.size) = FileBytes(c, m.fileOffset, m.size)]_vars

\* a read of 40000 bytes has ended in the second leaf of a call whose first
\* leaf is at a worker: the chunk spanned two leaves
C31_Witness ==
  /\ calls # <<>> /\ LastCall.pc = "read"
  /\ LastCall.currentLeafIdx = 1
  /\ LastCall.streamPos = 40000
  /\ LastCall.leafFilled = 40000 - 32768
  /\ \E p \in Outstanding : workers[p[1]].inbox[p[2]].fileOffset = 0

\* the state after the coordinator has handled the result reply of worker
\* p[1] to its queued message p[2], the worker having read the slot as held
AfterResult(p, held) ==
  LET w == workers[p[1]]
      m == w.inbox[p[2]]
  IN handleWorkerMessage(St, m.taskId, workerReply(w, m, held, FALSE))

\* C32: the step that handles the result of a pending task (the oldest
\* message of a worker's queue answered with a result) releases the
\* task's slot (the dispatcher it wakes may take it at once), decrements the
\* counter of the task's worker, delivers the CV, retries the pending
\* dispatches and leaves no call suspended on resolveSlot in the stream loop
\* while a slot is free.
C32_CompletionStep ==
  \A p \in Outstanding :
    LET w == workers[p[1]]
        m == w.inbox[p[2]]
    IN \A t \in pendingTasks : \A held \in m.seen :
         (p[2] = 1 /\ t.id = m.taskId /\ w.ready /\ w.taskHandler) =>
           LET r == AfterResult(p, held)
               c == t.call
               sent == {u \in r.pendingTasks \ pendingTasks :
                          u.call = c /\ u.workerIndex = t.workerIndex}
           IN /\ t \notin r.pendingTasks
              /\ \/ ~r.slotInUse[t.slot]
                 \/ /\ calls[c].pc = "waitSlot"
                    /\ \/ r.calls[c].currentSlotIdx = t.slot
                       \/ \E u \in r.pendingTasks \ pendingTasks : u.slot = t.slot
              /\ r.calls[c].workerInFlight[t.workerIndex] =
                   calls[c].workerInFlight[t.workerIndex] - 1 + Cardinality(sent)
              /\ t.leafId \in DOMAIN r.calls[c].cvMap
              /\ \/ r.calls[c].pendingDispatches = <<>>
                 \/ AllSaturated(r.calls[c].workerInFlight)
              /\ \A d \in DOMAIN r.calls :
                   r.calls[d].pc = "waitSlot" => \A i \in DOMAIN r.slotInUse : r.slotInUse[i]

\* worker i has handled the oldest message of its queue in the step
Replied(i) ==
  /\ i \in DOMAIN workers /\ i \in DOMAIN workers'
  /\ workers[i].inbox # <<>>
  /\ \A k \in DOMAIN workers'[i].inbox :
       workers'[i].inbox[k].taskId # Head(workers[i].inbox).taskId

C34_OneReplyPerHash ==
  /\ \A p \in Outstanding :
       LET w == workers[p[1]]
           m == w.inbox[p[2]]
       IN \A held \in m.seen : \A throws \in BOOLEAN :
            LET o == workerOnMessage(w, "hash", m, TRUE, held, throws)
            IN /\ Len(o.out) = 1
               /\ o.out[1].taskId = m.taskId
               /\ o.w = w
               /\ ~w.ready =>
                    o.out[1] = [type |-> "error", error |-> "Worker not initialized",
                                taskId |-> m.taskId]
               /\ (w.ready /\ throws) => o.out[1].type = "error"
               /\ (w.ready /\ ~throws) =>
                    /\ o.out[1].type = "result"
                    /\ o.out[1].cv = hash_subtree(workerView(w, held, m.size), m.fileOffset)
  /\ \A i \in DOMAIN workers : \A b \in 0..MaxInits :
       LET o == workerOnMessage(workers[i], "buffer", b, TRUE, <<>>, FALSE)
       IN o.out = <<>> /\ o.w = [workers[i] EXCEPT !.buf = b]

\* the 'hash' message of a pending task is in the queue of a worker whose
\* init has not completed
C34_Witness ==
  \E p \in Outstanding :
    /\ ~workers[p[1]].ready
    /\ \E t \in pendingTasks : t.id = workers[p[1]].inbox[p[2]].taskId

\* C35: the 'hash' message of a pending task of a running call names the
\* range [slot * chunkSize, slot * chunkSize + leaf.size) of the task's slot,
\* which lies inside that slot and inside the buffer, and the leaf's offset in
\* the file; a ready worker answers it with hash_subtree of the leaf.size
\* bytes it reads there and the leaf's offset in the file.
C35_TaskRangeAndOffset ==
  \A p \in Outstanding : \A t \in pendingTasks :
    LET w == workers[p[1]]
        m == w.inbox[p[2]]
        cl == calls[t.call]
    IN (t.id = m.taskId /\ cl.pc # "done") =>
         /\ t.slot \in 0..(numSlots - 1)
         /\ m.offset = t.slot * chunkSize
         /\ m.offset + m.size <= (t.slot + 1) * chunkSize
         /\ \E k \in DOMAIN cl.leaves :
              /\ cl.leaves[k].id = t.leafId
              /\ m.size = cl.leaves[k].size
              /\ m.fileOffset = cl.leaves[k].offset
              /\ \A held \in m.seen :
                   w.ready =>
                     workerOnMessage(w, "hash", m, TRUE, held, FALSE).out[1].cv =
                       hash_subtree(ViewBytes(held, cl.leaves[k].size), cl.leaves[k].offset)

\* a ready worker has the task of a leaf whose offset in the file is not the
\* offset of its slot
C35_Witness ==
  \E p \in Outstanding : \E t \in pendingTasks :
    LET m == workers[p[1]].inbox[p[2]]
    IN /\ t.id = m.taskId /\ calls[t.call].pc # "done"
       /\ workers[p[1]].ready
       /\ m.fileOffset # m.offset

\* C36: the streaming worker answers the 'hash' message of every pending leaf
\* task of StreamingHasher with a result for that task id, the CV being
\* hash_subtree of the leaf's bytes at the leaf's offset in the file.
C36_StreamingOffsetField ==
  \A i \in DOMAIN workers : \A k \in DOMAIN workers[i].inbox :
    \A t \in pendingTasks :
      LET data == workers[i].inbox[k]
          reply == streamingWorkerReply(workers[i].ready, data)
          leaf == nodeMap[t.leafId]
      IN (t.id = data.taskId /\ calls[t.call].pc # "done") =>
           /\ reply.type = "result"
           /\ reply.taskId = t.id
           /\ reply.cv = CV(t.call, leaf.offset, leaf.offset, leaf.size)

\* C37: the result of a task that an earlier, ended call dispatched leaves
\* the slot pool and the closure of the call that is running as they are.
C37_StaleReplyChangesNothing ==
  \A p \in Outstanding : \A t \in pendingTasks :
    LET w == workers[p[1]]
        m == w.inbox[p[2]]
    IN (/\ p[2] = 1 /\ t.id = m.taskId /\ w.ready /\ w.taskHandler
        /\ t.call < Len(calls) /\ calls[t.call].pc = "done"
        /\ LastCall.pc # "done") =>
         \A held \in m.seen :
           LET r == AfterResult(p, held)
           IN /\ r.slotInUse = slotInUse
              /\ r.calls[Len(calls)] = LastCall

\* C38: once terminate() has stopped the workers, and until the next init,
\* the pending-task table stays empty, the call that was running is not
\* suspended on resolveSlot, where nothing can wake it, and it has not
\* ended with another error than those of its stream and its tasks.
C38_TerminateEndsCall ==
  (workers = <<>> /\ ~initialized /\ calls # <<>> /\ LastCall.piped) =>
    /\ pendingTasks = {}
    /\ ~WaitsOnSlot(Len(calls))
    /\ LastCall.result # Rejected(TypeError)

\* n is a power of two
IsPow2(n) == n >= 1 /\ n = LowBit(n)

\* the chunks of a leaf, the last one possibly partial
Chunks(size) == (size + CHUNK_SIZE - 1) \div CHUNK_SIZE

\* the smallest power of two that is at least n
RECURSIVE Pow2AtLeast(_, _)
Pow2AtLeast(p, n) == IF p >= n THEN p ELSE Pow2AtLeast(2 * p, n)

\* C39, every leaf: each leaf of a planned tree is a power-of-two number of
\* whole chunks and starts at a multiple of its length.
C39_LeavesAreSubtrees ==
  calls # <<>> =>
    \A k \in LeafIds(nodeMap) :
      /\ nodeMap[k].size % CHUNK_SIZE = 0
      /\ IsPow2(nodeMap[k].size \div CHUNK_SIZE)
      /\ nodeMap[k].offset % nodeMap[k].size = 0

\* C39, the last leaf apart: each leaf that ends before the end of the input
\* is a power-of-two number of whole chunks and starts at a multiple of its
\* length; the last leaf has at most max_leaf_size bytes, any number of
\* chunks, the last one possibly partial, and starts at a multiple of the
\* smallest power-of-two number of chunks that holds it.
C39_LeavesAreSubtreesButLast ==
  calls # <<>> =>
    \A k \in LeafIds(nodeMap) :
      LET leaf == nodeMap[k] IN
      /\ leaf.size >= 1 /\ leaf.size <= chunkSize
      /\ leaf.offset % (Pow2AtLeast(1, Chunks(leaf.size)) * CHUNK_SIZE) = 0
      /\ leaf.offset + leaf.size < LastCall.size =>
           /\ leaf.size % CHUNK_SIZE = 0
           /\ IsPow2(leaf.size \div CHUNK_SIZE)
           /\ leaf.offset % leaf.size = 0

\* a tree has been planned whose last leaf does not start at 0 and has three
\* chunks, the third partial
C39_Witness ==
  /\ calls # <<>>
  /\ \E k \in LeafIds(nodeMap) :
       /\ nodeMap[k].offset > 0
       /\ nodeMap[k].offset + nodeMap[k].size = LastCall.size
       /\ Chunks(nodeMap[k].size) = 3
       /\ nodeMap[k].size % CHUNK_SIZE # 0

\* C40: a worker that is ready and has a 'hash' message to handle stores the
\* shared buffer of the hasher, the one the coordinator fills.
C40_BufferBeforeHash ==
  \A p \in Outstanding :
    workers[p[1]].ready => workers[p[1]].buf = sabGen

====
